---- MODULE Spec2Model ----
(***************************************************************************)
(* A model of scanner.py: the poll loop of main(), filter_gems(),          *)
(* analyze_token() and the alert gate (should_alert, can_alert_today,      *)
(* bump_alert_count, record_alert).                                        *)
(*                                                                         *)
(* Time is the UTC clock in whole seconds since the epoch.  Prices are     *)
(* whole numbers of some small unit, liquidity is whole USD.  The float    *)
(* thresholds of the source (0.20, 1.5, 2.0, 5.0) are kept as percent or   *)
(* tenths and compared by cross-multiplication.  An absent value (Python   *)
(* None, a missing key) is None.  A dict is a function whose DOMAIN is     *)
(* the set of its keys.                                                    *)
(*                                                                         *)
(* The clock is read once per poll cycle: it advances in time.sleep() of   *)
(* line 597 only.  The seconds send_telegram() sleeps between its attempts *)
(* are kept in telegram.backoff.  Writes of the state files succeed.       *)
(* SpecClock is the loop with the clock read anew by each line of a        *)
(* dispatch.                                                               *)
(***************************************************************************)
EXTENDS Integers, Sequences, FiniteSets, TLC

VARIABLES
    now,            \* the UTC clock, seconds
    pc,             \* where main() is in its loop
    polls,          \* poll cycles started so far
    n_left,         \* tokens of the fetched batch not yet analysed
    token,          \* the token analyze_token() was last called with
    history,        \* filter_gems(): the local dict `history`
    history_file,   \* price_history.json
    dex_cache,      \* _dex_cache (entries younger than _DEX_CACHE_TTL)
    gems,           \* main(): the gems not yet dispatched
    seen,           \* main(): addr -> time of the last alert
    alert_counts,   \* main(): addr -> [date, count]
    alert_log,      \* main(): the list of alert log entries
    summary_state,  \* main(): summary_state["last_summary_date"]
    configured,     \* TELEGRAM_BOT_TOKEN and TELEGRAM_CHAT_ID are both set
    telegram,       \* send_telegram(): where the call is, its attempts so far,
                    \* the seconds slept between them, and what it returned
    writes,         \* the state files written in this cycle, in order
    digests         \* the times a weekly digest was handed to send_telegram()

vars == <<now, pc, polls, n_left, token, history, history_file, dex_cache,
          gems, seen, alert_counts, alert_log, summary_state, configured,
          telegram, writes, digests>>

-----------------------------------------------------------------------------
(* Configuration, scanner.py lines 49-74 *)

MIN_LIQUIDITY == 20000
MAX_LIQUIDITY == 100000
MAX_AGE_HOURS == 72
MIN_AGE_HOURS == 4
POLL_INTERVAL == 300
MIN_PRICE_MOMENTUM_PCT == 20
MIN_LIQUIDITY_GROWTH_X10 == 15
WEEKOLD_LIQ_MULTIPLIER_X10 == 20
MIN_VOLUME_SPIKE_X10 == 50
MIN_TXNS_FOR_SPIKE == 10
MIN_LIQ_GROWTH_24H_X10 == 15
REALERT_HOURS == 6
MAX_ALERTS_PER_TOKEN_PER_DAY == 10
HISTORY_MAX_AGE_HOURS == 200
SUMMARY_HOUR_UTC == 16
WEEKOLD_AGE_HOURS == 168
MAX_SAMPLES == 500
DEX_CACHE_TTL == 60
RETRIES == 3

HOUR == 3600
DAY == 24 * HOUR
SAMPLE_WINDOW == 7 * 24 * HOUR

None == -1

\* a priceUsd that float() cannot parse, such as "n/a"
Unparsable == -2

-----------------------------------------------------------------------------
(* Bounds of the model *)

MaxPolls == 2
MaxBatch == 2

-----------------------------------------------------------------------------
(* Helpers for dicts and lists *)

EmptyDict == [k \in {} |-> None]

Put(d, k, v) == [x \in (DOMAIN d) \cup {k} |-> IF x = k THEN v ELSE d[x]]

\* s[-n:]
LastN(s, n) == IF Len(s) <= n THEN s ELSE SubSeq(s, Len(s) - n + 1, Len(s))

\* datetime.now(timezone.utc).strftime("%Y-%m-%d"), as the number of the day
today_key(t) == t \div DAY

\* datetime.weekday(): Monday is 0; 1970-01-01 was a Thursday
weekday(t) == ((t \div DAY) + 3) % 7

hour_of_day(t) == (t % DAY) \div HOUR

-----------------------------------------------------------------------------
(* The alert gate *)

\* should_alert() with the comparison of line 183 made strict
should_alert_window_strict(realert, seen_, addr, t) ==
    IF realert = 0
    THEN addr \notin DOMAIN seen_
    ELSE IF addr \notin DOMAIN seen_
         THEN TRUE
         ELSE (t - seen_[addr]) > realert * HOUR

\* should_alert() for a re-alert window of `realert` hours
should_alert_window(realert, seen_, addr, t) ==
    IF realert = 0
    THEN addr \notin DOMAIN seen_
    ELSE IF addr \notin DOMAIN seen_
         THEN TRUE
         ELSE (t - seen_[addr]) >= realert * HOUR

should_alert(seen_, addr, t) == should_alert_window(REALERT_HOURS, seen_, addr, t)

\* can_alert_today() letting one alert too many through
can_alert_today_off_by_one(counts, addr, t) ==
    IF addr \notin DOMAIN counts \/ counts[addr].date # today_key(t)
    THEN TRUE
    ELSE counts[addr].count <= MAX_ALERTS_PER_TOKEN_PER_DAY

can_alert_today(counts, addr, t) ==
    IF addr \notin DOMAIN counts \/ counts[addr].date # today_key(t)
    THEN TRUE
    ELSE counts[addr].count < MAX_ALERTS_PER_TOKEN_PER_DAY

bump_alert_count(counts, addr, t) ==
    IF addr \notin DOMAIN counts \/ counts[addr].date # today_key(t)
    THEN Put(counts, addr, [date |-> today_key(t), count |-> 1])
    ELSE Put(counts, addr, [date |-> counts[addr].date, count |-> counts[addr].count + 1])

record_alert(log, gem, t) ==
    Append(log, [ts |-> t, addr |-> gem.addr, liquidity |-> gem.liquidity])

-----------------------------------------------------------------------------
(* History *)

\* prune_price_history(): an entry newer than the cutoff is kept at line 162;
\* every other entry falls through to line 167 and is kept as well.
prune_price_history(hist, t) ==
    LET cutoff == t - HISTORY_MAX_AGE_HOURS * HOUR
        fresh == {a \in DOMAIN hist : hist[a].updated # None /\ hist[a].updated > cutoff}
        fallthrough == (DOMAIN hist) \ fresh
    IN  [a \in fresh \cup fallthrough |-> hist[a]]

\* history.get(addr, {}) with the defaults of the .get() calls made on it
NoRecord ==
    [priceUsd |-> None, liquidity |-> None, txns_h1 |-> 0, txns_h24 |-> 0,
     volume_h1 |-> 0, updated |-> None, samples |-> <<>>]

prev_hist(hist, addr) == IF addr \in DOMAIN hist THEN hist[addr] ELSE NoRecord

\* fetch_dexscreener_data() returned None
NoDex == [txns_h1 |-> None, txns_h24 |-> None, volume_h1 |-> None]

\* the trim keeping the first MAX_SAMPLES samples of the window, [:500]
trim_samples_oldest(samples, t) ==
    LET inside == SelectSeq(samples, LAMBDA s : s.ts >= t - SAMPLE_WINDOW)
    IN  IF Len(inside) <= MAX_SAMPLES THEN inside ELSE SubSeq(inside, 1, MAX_SAMPLES)

\* analyze_token() lines 418-431: the samples after the append and the trim
trim_samples(samples, t) ==
    LastN(SelectSeq(samples, LAMBDA s : s.ts >= t - SAMPLE_WINDOW), MAX_SAMPLES)

new_samples(hist, tok, t) ==
    trim_samples(Append(prev_hist(hist, tok.tokenAddress).samples,
                        [ts |-> t, priceUsd |-> tok.priceUsd, liquidity |-> tok.liquidity]), t)

\* analyze_token() lines 418-441
update_history(hist, tok, dex_data, t) ==
    LET prev == prev_hist(hist, tok.tokenAddress)
    IN  Put(hist, tok.tokenAddress,
            [priceUsd  |-> tok.priceUsd,
             liquidity |-> tok.liquidity,
             txns_h1   |-> IF dex_data # NoDex THEN dex_data.txns_h1 ELSE prev.txns_h1,
             txns_h24  |-> IF dex_data # NoDex THEN dex_data.txns_h24 ELSE prev.txns_h24,
             volume_h1 |-> IF dex_data # NoDex THEN dex_data.volume_h1 ELSE prev.volume_h1,
             updated   |-> t,
             samples   |-> new_samples(hist, tok, t)])

-----------------------------------------------------------------------------
(* analyze_token() *)

age_seconds(tok, t) == t - tok.createdAt

\* the age filter without its upper bound
age_ok_no_max(tok, t) ==
    /\ tok.createdAt # None
    /\ ~(age_seconds(tok, t) < MIN_AGE_HOURS * HOUR)

\* lines 332-341
age_ok(tok, t) ==
    /\ tok.createdAt # None
    /\ ~(age_seconds(tok, t) < MIN_AGE_HOURS * HOUR \/ age_seconds(tok, t) > MAX_AGE_HOURS * HOUR)

\* lines 344-351; float(None or 0) is 0
liq_of(tok) == IF tok.liquidity = None THEN 0 ELSE tok.liquidity

\* the liquidity filter without its upper bound
liquidity_ok_no_max(tok) == ~(liq_of(tok) < MIN_LIQUIDITY)

liquidity_ok(tok) == ~(liq_of(tok) < MIN_LIQUIDITY) /\ ~(liq_of(tok) > MAX_LIQUIDITY)

\* the momentum rules taking a missing record for a baseline of zero
momentum_indicators_no_baseline(tok, hist, t) ==
    IF tok.tokenAddress \notin DOMAIN hist
    THEN <<"liquidity">>
    ELSE LET prev_price == hist[tok.tokenAddress].priceUsd
             prev_liq == hist[tok.tokenAddress].liquidity
         IN  IF tok.priceUsd = None \/ tok.priceUsd = 0 \/ prev_price = None
                \/ prev_price = 0 \/ prev_liq = None \/ prev_liq = 0
             THEN <<>>
             ELSE (IF 100 * (tok.priceUsd - prev_price) >= MIN_PRICE_MOMENTUM_PCT * prev_price
                   THEN <<"price">> ELSE <<>>)
                  \o (IF 10 * tok.liquidity >= MIN_LIQUIDITY_GROWTH_X10 * prev_liq
                      THEN <<"liquidity">> ELSE <<>>)
                  \o (IF /\ t - tok.createdAt >= WEEKOLD_AGE_HOURS * HOUR
                         /\ 10 * tok.liquidity >= WEEKOLD_LIQ_MULTIPLIER_X10 * prev_liq
                      THEN <<"weekold">> ELSE <<>>)

\* lines 358-380: price momentum, liquidity growth, week-old multiplier
momentum_indicators(tok, hist, t) ==
    LET addr == tok.tokenAddress
        current_price == tok.priceUsd
    IN  IF addr \in DOMAIN hist /\ current_price # None /\ current_price # 0
        THEN LET prev_price == hist[addr].priceUsd
                 prev_liq == hist[addr].liquidity
             IN  IF prev_price # None /\ prev_liq # None
                 THEN IF prev_price = 0 \/ prev_liq = 0
                      THEN <<>>     \* ZeroDivisionError, swallowed at line 379
                      ELSE (IF 100 * (current_price - prev_price) >= MIN_PRICE_MOMENTUM_PCT * prev_price
                            THEN <<"price">> ELSE <<>>)
                           \o (IF 10 * tok.liquidity >= MIN_LIQUIDITY_GROWTH_X10 * prev_liq
                               THEN <<"liquidity">> ELSE <<>>)
                           \o (IF /\ age_seconds(tok, t) >= WEEKOLD_AGE_HOURS * HOUR
                                  /\ 10 * tok.liquidity >= WEEKOLD_LIQ_MULTIPLIER_X10 * prev_liq
                               THEN <<"weekold">> ELSE <<>>)
                 ELSE <<>>
        ELSE <<>>

\* line 387
old_samples(hist, addr, t) ==
    SelectSeq(prev_hist(hist, addr).samples, LAMBDA s : s.ts <= t - 24 * HOUR)

\* the 24h rule as one more additive signal: it never rejects
liq_24h_gate_additive(tok, hist, t) ==
    LET old == old_samples(hist, tok.tokenAddress, t)
    IN  IF /\ age_seconds(tok, t) >= 24 * HOUR
           /\ old # <<>>
           /\ old[Len(old)].liquidity # None
           /\ old[Len(old)].liquidity > 0
           /\ 10 * tok.liquidity >= MIN_LIQ_GROWTH_24H_X10 * old[Len(old)].liquidity
        THEN "emit" ELSE "skip"

\* lines 382-400: "skip", "emit" or "reject"
liq_24h_gate(tok, hist, t) ==
    LET old == old_samples(hist, tok.tokenAddress, t)
    IN  IF age_seconds(tok, t) >= 24 * HOUR /\ old # <<>>
        THEN LET old_liq == IF old[Len(old)].liquidity = None THEN 0 ELSE old[Len(old)].liquidity
             IN  IF old_liq > 0
                 THEN IF 10 * tok.liquidity >= MIN_LIQ_GROWTH_24H_X10 * old_liq
                      THEN "emit" ELSE "reject"
                 ELSE "skip"
        ELSE "skip"

\* lines 402-416
volume_indicators(tok, hist, dex_data) ==
    LET addr == tok.tokenAddress
    IN  IF addr \in DOMAIN hist /\ dex_data # NoDex
        THEN LET prev_txns == hist[addr].txns_h1
                 current_txns == dex_data.txns_h1
             IN  IF /\ prev_txns >= MIN_TXNS_FOR_SPIKE
                    /\ current_txns > 0
                    /\ 10 * current_txns >= MIN_VOLUME_SPIKE_X10 * prev_txns
                 THEN <<"volume">> ELSE <<>>
        ELSE <<>>

NoGem == [addr |-> "", liquidity |-> None, indicators |-> <<>>]

\* the indicators of a token that got past every early return
indicators_of(tok, hist, dex_data, t) ==
    momentum_indicators(tok, hist, t)
    \o (IF liq_24h_gate(tok, hist, t) = "emit" THEN <<"liq24h">> ELSE <<>>)
    \o volume_indicators(tok, hist, dex_data)

\* analyze_token() got past the early returns of lines 324-351
passes_filters(tok, seen_, t) ==
    /\ tok.tokenAddress # ""
    /\ should_alert(seen_, tok.tokenAddress, t)
    /\ age_ok(tok, t)
    /\ liquidity_ok(tok)

\* line 354: float(price_usd) raises ValueError; nothing catches it before the
\* `except` of main(), line 594
analysis_raises(tok, seen_, t) ==
    passes_filters(tok, seen_, t) /\ tok.priceUsd = Unparsable

\* analyze_token(): the gem returned (NoGem for None), the history dict after
\* the call, and whether fetch_dexscreener_data() was called
analyze_token(tok, hist, seen_, dex_data, t) ==
    IF ~passes_filters(tok, seen_, t)
    THEN [gem |-> NoGem, history |-> hist, fetched |-> FALSE]
    ELSE IF liq_24h_gate(tok, hist, t) = "reject"
    THEN [gem |-> NoGem, history |-> hist, fetched |-> FALSE]
    ELSE LET \* line 403-405: DexScreener is asked only when there is history
             dex == IF tok.tokenAddress \in DOMAIN hist THEN dex_data ELSE NoDex
             ind == indicators_of(tok, hist, dex, t)
         IN  [gem |-> IF ind # <<>>
                      THEN [addr |-> tok.tokenAddress, liquidity |-> tok.liquidity,
                            indicators |-> ind]
                      ELSE NoGem,
              history |-> update_history(hist, tok, dex, t),
              fetched |-> tok.tokenAddress \in DOMAIN hist]

-----------------------------------------------------------------------------
(* What the feed and DexScreener may return *)

Addr == {"A", "B"}

\* age (seconds), liquidity and price of the tokens the feed returns
Profiles ==
    {[age |-> 10 * HOUR, liquidity |-> 50000, priceUsd |-> 100],
     [age |-> 10 * HOUR, liquidity |-> 80000, priceUsd |-> 100],
     [age |-> 10 * HOUR, liquidity |-> 80000, priceUsd |-> None],
     [age |-> 30 * HOUR, liquidity |-> 50000, priceUsd |-> 120],
     [age |-> 30 * HOUR, liquidity |-> 80000, priceUsd |-> 100],
     [age |-> 2 * HOUR,  liquidity |-> 80000, priceUsd |-> 120],
     [age |-> 80 * HOUR, liquidity |-> 80000, priceUsd |-> 120],
     [age |-> 170 * HOUR, liquidity |-> 80000, priceUsd |-> 120],
     [age |-> 10 * HOUR, liquidity |-> 10000, priceUsd |-> 120],
     [age |-> 10 * HOUR, liquidity |-> 120000, priceUsd |-> 120],
     [age |-> 10 * HOUR, liquidity |-> 50000, priceUsd |-> Unparsable]}

TokenSet(t) ==
    {[tokenAddress |-> a, createdAt |-> t - p.age, liquidity |-> p.liquidity,
      priceUsd |-> p.priceUsd] : a \in Addr, p \in Profiles}

NoToken == [tokenAddress |-> "", createdAt |-> None, liquidity |-> None, priceUsd |-> None]

DexSet ==
    {NoDex, [txns_h1 |-> 50, txns_h24 |-> 200, volume_h1 |-> 5000]}

\* time.sleep(POLL_INTERVAL) returns after at least POLL_INTERVAL seconds
SleepSet == {POLL_INTERVAL, DAY}

-----------------------------------------------------------------------------
(* send_telegram(), lines 279-305 *)

\* no call of send_telegram() is under way
TelegramIdle == [at |-> "idle", attempts |-> 0, backoff |-> <<>>, result |-> "none"]

\* lines 281-283 and 293: the call returns False at once when Telegram is not
\* configured, and enters its loop otherwise
telegram_called(configured_) ==
    IF configured_
    THEN [at |-> "try", attempts |-> 0, backoff |-> <<>>, result |-> "none"]
    ELSE [at |-> "done", attempts |-> 0, backoff |-> <<>>, result |-> "failed"]

\* the test of line 301 letting the last attempt be followed by one more
may_retry_once_more(attempt, retries) == attempt <= retries

\* line 301
may_retry(attempt, retries) == attempt < retries

\* lines 295-297: the attempt got an ok response
telegram_ok(tg) ==
    [at |-> "done", attempts |-> tg.attempts + 1, backoff |-> tg.backoff, result |-> "ok"]

\* lines 298-305: the attempt failed (a response that is not ok, or an exception)
telegram_failed(tg, retries) ==
    LET attempt == tg.attempts + 1
    IN  IF may_retry(attempt, retries)
        THEN [at |-> "try", attempts |-> attempt,
              backoff |-> Append(tg.backoff, 2 ^ attempt), result |-> "none"]
        ELSE [at |-> "done", attempts |-> attempt, backoff |-> tg.backoff,
              result |-> "failed"]

-----------------------------------------------------------------------------
(* The state main() starts its loop in: a store left by an earlier run.    *)
(* Friday 1970-01-09 15:55 UTC.  "B" was alerted nine times today, last at *)
(* 10:00; "C" was last updated 201 hours ago; "A" has never been seen.     *)

T0 == 8 * DAY + 15 * HOUR + 55 * 60

LastAlertB == T0 - (REALERT_HOURS * HOUR - POLL_INTERVAL)

StaleC == T0 - (HISTORY_MAX_AGE_HOURS + 1) * HOUR

RecordC ==
    [priceUsd |-> 100, liquidity |-> 40000, txns_h1 |-> 0, txns_h24 |-> 0,
     volume_h1 |-> 0, updated |-> StaleC,
     samples |-> <<[ts |-> StaleC, priceUsd |-> 100, liquidity |-> 40000]>>]

\* B's record with the given samples
RecordB(samples) ==
    [priceUsd |-> 100, liquidity |-> 40000, txns_h1 |-> 10, txns_h24 |-> 100,
     volume_h1 |-> 1000, updated |-> LastAlertB, samples |-> samples]

\* B sampled a week, 18 hours and no time before its last alert
SamplesB ==
    <<[ts |-> LastAlertB - SAMPLE_WINDOW, priceUsd |-> 100, liquidity |-> 40000],
      [ts |-> LastAlertB - 18 * HOUR, priceUsd |-> 100, liquidity |-> 40000],
      [ts |-> LastAlertB, priceUsd |-> 100, liquidity |-> 40000]>>

StoredHistory == Put(Put(EmptyDict, "B", RecordB(SamplesB)), "C", RecordC)

\* B was alerted nine times today, an hour apart
StoredLog ==
    [k \in 1..(MAX_ALERTS_PER_TOKEN_PER_DAY - 1) |->
        [ts |-> LastAlertB - (MAX_ALERTS_PER_TOKEN_PER_DAY - 1 - k) * HOUR,
         addr |-> "B", liquidity |-> 40000]]

\* the loop at T0 with the tables as loaded from the files, at place `at` of
\* its cycle after `started` polls
Loaded(stored_history, at, started) ==
    /\ now = T0
    /\ pc = at
    /\ polls = started
    /\ n_left = 0
    /\ token = NoToken
    /\ history = EmptyDict
    /\ history_file = stored_history
    /\ dex_cache = EmptyDict
    /\ gems = <<>>
    /\ seen = Put(EmptyDict, "B", LastAlertB)
    /\ alert_counts = Put(EmptyDict, "B",
                          [date |-> today_key(T0), count |-> Len(StoredLog)])
    /\ alert_log = StoredLog
    /\ summary_state = None
    /\ configured \in BOOLEAN
    /\ telegram = TelegramIdle
    /\ writes = <<>>
    /\ digests = <<>>

\* main() enters its loop
Init == Loaded(StoredHistory, "idle", 0)

(* The same store with B's sample list full: one sample a week old, the    *)
(* others five minutes apart.  The loop is in the sleep before the last    *)
(* cycle that the model follows.                                           *)

SamplesBFull ==
    [k \in 1..MAX_SAMPLES |->
        [ts |-> IF k = 1 THEN LastAlertB - SAMPLE_WINDOW
                ELSE LastAlertB - (MAX_SAMPLES - k) * POLL_INTERVAL,
         priceUsd |-> 100, liquidity |-> 40000]]

StoredHistoryFull == Put(Put(EmptyDict, "B", RecordB(SamplesBFull)), "C", RecordC)

InitFull == Loaded(StoredHistoryFull, "sleep", MaxPolls - 1)

-----------------------------------------------------------------------------
(* The poll loop of main(), lines 532-597 *)

\* line 534: the feed returns a batch of at most `most` tokens (none when the
\* fetch fails, lines 238-240); the tokens themselves are drawn as they are
\* analysed
Fetch(most) ==
    /\ pc = "idle"
    /\ polls' = polls + 1
    /\ \E n \in 0..most : n_left' = n
    /\ token' = NoToken
    /\ telegram' = TelegramIdle
    /\ writes' = <<>>
    /\ pc' = "filter"
    /\ UNCHANGED <<now, history, history_file, dex_cache, gems, seen,
                   alert_counts, alert_log, summary_state, configured, digests>>

FetchNewTokens == Fetch(MaxBatch)

\* filter_gems() lines 456-458
LoadHistory ==
    /\ pc = "filter"
    /\ history' = prune_price_history(history_file, now)
    /\ gems' = <<>>
    /\ pc' = "analyze"
    /\ UNCHANGED <<now, polls, n_left, token, history_file, dex_cache, seen,
                   alert_counts, alert_log, summary_state, configured, telegram,
                   writes, digests>>

\* filter_gems() lines 456-458 when load_json() cannot read the file and
\* returns its default (lines 93-95)
LoadHistoryFailed ==
    /\ pc = "filter"
    /\ history' = prune_price_history(EmptyDict, now)
    /\ gems' = <<>>
    /\ pc' = "analyze"
    /\ UNCHANGED <<now, polls, n_left, token, history_file, dex_cache, seen,
                   alert_counts, alert_log, summary_state, configured, telegram,
                   writes, digests>>

\* filter_gems() lines 460-463: one turn of the loop, analyze_token() returning
AnalyzeToken ==
    /\ pc = "analyze"
    /\ n_left > 0
    /\ \E tok \in TokenSet(now), fresh \in DexSet :
          LET addr == tok.tokenAddress
              \* fetch_dexscreener_data(): the cached answer, if there is one
              dex_data == IF addr \in DOMAIN dex_cache THEN dex_cache[addr] ELSE fresh
              result == analyze_token(tok, history, seen, dex_data, now)
          IN  /\ ~analysis_raises(tok, seen, now)
              /\ token' = tok
              /\ history' = result.history
              /\ gems' = IF result.gem # NoGem THEN Append(gems, result.gem) ELSE gems
              /\ dex_cache' = IF result.fetched THEN Put(dex_cache, addr, dex_data)
                              ELSE dex_cache
    /\ n_left' = n_left - 1
    /\ UNCHANGED <<now, pc, polls, history_file, seen, alert_counts, alert_log,
                   summary_state, configured, telegram, writes, digests>>

\* the exception of analyze_token() with no `try` around the body of the loop
\* of main(): the process ends
AnalyzeRaises_uncaught ==
    /\ pc = "analyze"
    /\ n_left > 0
    /\ \E tok \in TokenSet(now) :
          /\ analysis_raises(tok, seen, now)
          /\ token' = tok
    /\ history' = EmptyDict
    /\ gems' = <<>>
    /\ pc' = "exited"
    /\ UNCHANGED <<now, polls, n_left, history_file, dex_cache, seen, alert_counts,
                   alert_log, summary_state, configured, telegram, writes, digests>>

\* filter_gems() line 461 when analyze_token() raises: the exception leaves
\* filter_gems() and the `try` of main() and is logged at line 595; the locals
\* `history` and `gems` are gone and the loop sleeps
AnalyzeRaises ==
    /\ pc = "analyze"
    /\ n_left > 0
    /\ \E tok \in TokenSet(now) :
          /\ analysis_raises(tok, seen, now)
          /\ token' = tok
    /\ history' = EmptyDict
    /\ gems' = <<>>
    /\ pc' = "sleep"
    /\ UNCHANGED <<now, polls, n_left, history_file, dex_cache, seen, alert_counts,
                   alert_log, summary_state, configured, telegram, writes, digests>>

\* filter_gems() lines 465-466
SavePriceHistory ==
    /\ pc = "analyze"
    /\ n_left = 0
    /\ history_file' = history
    /\ writes' = Append(writes, "price_history")
    /\ history' = EmptyDict
    /\ token' = NoToken
    /\ pc' = "dispatch"
    /\ UNCHANGED <<now, polls, n_left, dex_cache, gems, seen, alert_counts,
                   alert_log, summary_state, configured, telegram, digests>>

\* lines 547-549
DailyCapReached ==
    /\ pc = "dispatch"
    /\ telegram.at = "idle"
    /\ gems # <<>>
    /\ ~can_alert_today(alert_counts, Head(gems).addr, now)
    /\ gems' = Tail(gems)
    /\ UNCHANGED <<now, pc, polls, n_left, token, history, history_file, dex_cache,
                   seen, alert_counts, alert_log, summary_state, configured,
                   telegram, writes, digests>>

\* line 551: the call of send_telegram() for the alert
SendAlert ==
    /\ pc = "dispatch"
    /\ telegram.at = "idle"
    /\ gems # <<>>
    /\ can_alert_today(alert_counts, Head(gems).addr, now)
    /\ telegram' = telegram_called(configured)
    /\ UNCHANGED <<now, pc, polls, n_left, token, history, history_file, dex_cache,
                   gems, seen, alert_counts, alert_log, summary_state, configured,
                   writes, digests>>

\* send_telegram() lines 295-297: an attempt succeeds
TelegramAttemptOk ==
    /\ telegram.at = "try"
    /\ telegram' = telegram_ok(telegram)
    /\ UNCHANGED <<now, pc, polls, n_left, token, history, history_file, dex_cache,
                   gems, seen, alert_counts, alert_log, summary_state, configured,
                   writes, digests>>

\* send_telegram() lines 298-305: an attempt fails
TelegramAttemptFailed ==
    /\ telegram.at = "try"
    /\ telegram' = telegram_failed(telegram, RETRIES)
    /\ UNCHANGED <<now, pc, polls, n_left, token, history, history_file, dex_cache,
                   gems, seen, alert_counts, alert_log, summary_state, configured,
                   writes, digests>>

\* lines 551-555: send_telegram() returned True
AlertSent ==
    /\ pc = "dispatch"
    /\ telegram.at = "done"
    /\ telegram.result = "ok"
    /\ seen' = Put(seen, Head(gems).addr, now)
    /\ alert_counts' = bump_alert_count(alert_counts, Head(gems).addr, now)
    /\ alert_log' = record_alert(alert_log, Head(gems), now)
    /\ gems' = Tail(gems)
    /\ telegram' = [telegram EXCEPT !.at = "idle"]
    /\ UNCHANGED <<now, pc, polls, n_left, token, history, history_file, dex_cache,
                   summary_state, configured, writes, digests>>

\* a failed send that starts the cooldown all the same
AlertFailed_marks_seen ==
    /\ pc = "dispatch"
    /\ telegram.at = "done"
    /\ telegram.result = "failed"
    /\ seen' = Put(seen, Head(gems).addr, now)
    /\ gems' = Tail(gems)
    /\ telegram' = [telegram EXCEPT !.at = "idle"]
    /\ UNCHANGED <<now, pc, polls, n_left, token, history, history_file, dex_cache,
                   alert_counts, alert_log, summary_state, configured,
                   writes, digests>>

\* lines 556-557: send_telegram() returned False
AlertFailed ==
    /\ pc = "dispatch"
    /\ telegram.at = "done"
    /\ telegram.result = "failed"
    /\ gems' = Tail(gems)
    /\ telegram' = [telegram EXCEPT !.at = "idle"]
    /\ UNCHANGED <<now, pc, polls, n_left, token, history, history_file, dex_cache,
                   seen, alert_counts, alert_log, summary_state, configured,
                   writes, digests>>

\* lines 559-561
SaveAlertState ==
    /\ pc = "dispatch"
    /\ telegram.at = "idle"
    /\ gems = <<>>
    /\ writes' = writes \o <<"seen_tokens", "alert_counts", "alert_log">>
    /\ telegram' = TelegramIdle
    /\ pc' = "summary"
    /\ UNCHANGED <<now, polls, n_left, token, history, history_file, dex_cache, gems,
                   seen, alert_counts, alert_log, summary_state, configured, digests>>

\* the summary condition without the test of the day of the week
summary_due_any_day(t, last_summary) ==
    /\ hour_of_day(t) >= SUMMARY_HOUR_UTC
    /\ last_summary # today_key(t)

\* lines 565-568
summary_due(t, last_summary) ==
    /\ weekday(t) = 4
    /\ hour_of_day(t) >= SUMMARY_HOUR_UTC
    /\ last_summary # today_key(t)

\* lines 569-590: the digest is built and handed to send_telegram()
SendSummary ==
    /\ pc = "summary"
    /\ telegram.at = "idle"
    /\ summary_due(now, summary_state)
    /\ telegram' = telegram_called(configured)
    /\ digests' = Append(digests, now)
    /\ UNCHANGED <<now, pc, polls, n_left, token, history, history_file, dex_cache,
                   gems, seen, alert_counts, alert_log, summary_state, configured,
                   writes>>

\* the date of the summary stored only when the digest was sent
WeeklySummary_only_if_sent ==
    /\ pc = "summary"
    /\ telegram.at = "done"
    /\ summary_state' = IF telegram.result = "ok" THEN today_key(now) ELSE summary_state
    /\ writes' = Append(writes, "summary_state")
    /\ telegram' = [telegram EXCEPT !.at = "idle"]
    /\ pc' = "sleep"
    /\ UNCHANGED <<now, polls, n_left, token, history, history_file, dex_cache, gems,
                   seen, alert_counts, alert_log, configured, digests>>

\* lines 590-592; what send_telegram() returned is not looked at
WeeklySummary ==
    /\ pc = "summary"
    /\ telegram.at = "done"
    /\ summary_state' = today_key(now)
    /\ writes' = Append(writes, "summary_state")
    /\ telegram' = [telegram EXCEPT !.at = "idle"]
    /\ pc' = "sleep"
    /\ UNCHANGED <<now, polls, n_left, token, history, history_file, dex_cache, gems,
                   seen, alert_counts, alert_log, configured, digests>>

NoSummary ==
    /\ pc = "summary"
    /\ telegram.at = "idle"
    /\ ~summary_due(now, summary_state)
    /\ pc' = "sleep"
    /\ UNCHANGED <<now, polls, n_left, token, history, history_file, dex_cache, gems,
                   seen, alert_counts, alert_log, summary_state, configured,
                   telegram, writes, digests>>

\* line 597, after at most `most` cycles; every entry of _dex_cache is older
\* than its TTL afterwards
SleepFor(naps, most) ==
    /\ pc = "sleep"
    /\ polls < most
    /\ \E d \in naps : now' = now + d
    /\ dex_cache' = EmptyDict
    /\ pc' = "idle"
    /\ UNCHANGED <<polls, n_left, token, history, history_file, gems, seen,
                   alert_counts, alert_log, summary_state, configured, telegram,
                   writes, digests>>

\* The model stops after MaxPolls cycles.
Sleep == SleepFor(SleepSet, MaxPolls)

Next ==
    \/ FetchNewTokens
    \/ LoadHistory
    \/ LoadHistoryFailed
    \/ AnalyzeToken
    \/ AnalyzeRaises
    \/ SavePriceHistory
    \/ DailyCapReached
    \/ SendAlert
    \/ TelegramAttemptOk
    \/ TelegramAttemptFailed
    \/ AlertSent
    \/ AlertFailed
    \/ SaveAlertState
    \/ SendSummary
    \/ WeeklySummary
    \/ NoSummary
    \/ Sleep

Spec == Init /\ [][Next]_vars

\* the same loop, started on the fuller store
SpecFull == InitFull /\ [][Next]_vars

\* main() is one sequential process: while a step is possible, one is taken
SpecLive == Spec /\ WF_vars(Next)

-----------------------------------------------------------------------------
(* The loop while the feed has nothing new, over several weeks *)

MaxQuietPolls == 5

QuietSleepSet == {POLL_INTERVAL, DAY, 6 * DAY}

\* fetch_new_tokens() returned []
FetchNothing == Fetch(0)

SleepLong == SleepFor(QuietSleepSet, MaxQuietPolls)

NextQuiet ==
    \/ FetchNothing
    \/ LoadHistory
    \/ SavePriceHistory
    \/ SaveAlertState
    \/ SendSummary
    \/ TelegramAttemptOk
    \/ TelegramAttemptFailed
    \/ WeeklySummary
    \/ NoSummary
    \/ SleepLong

SpecQuiet == Init /\ [][NextQuiet]_vars

-----------------------------------------------------------------------------
(* The loop with the clock read line by line in a dispatch: lines 552, 553 *)
(* and 554 each read it, and it may pass midnight between two of them.     *)

\* the first second of the UTC day after that of t
next_midnight(t) == ((t \div DAY) + 1) * DAY

\* lines 551-555 with midnight between the clock reading of
\* bump_alert_count() (line 201) and that of record_alert() (line 211)
AlertSentAcrossMidnight ==
    /\ pc = "dispatch"
    /\ telegram.at = "done"
    /\ telegram.result = "ok"
    /\ seen' = Put(seen, Head(gems).addr, now)
    /\ alert_counts' = bump_alert_count(alert_counts, Head(gems).addr, now)
    /\ now' = next_midnight(now)
    /\ alert_log' = record_alert(alert_log, Head(gems), now')
    /\ gems' = Tail(gems)
    /\ telegram' = [telegram EXCEPT !.at = "idle"]
    /\ UNCHANGED <<pc, polls, n_left, token, history, history_file, dex_cache,
                   summary_state, configured, writes, digests>>

NextClock ==
    \/ Next
    \/ AlertSentAcrossMidnight

SpecClock == Init /\ [][NextClock]_vars

-----------------------------------------------------------------------------
(* Vocabulary of the properties *)

\* this step is one call of analyze_token(), on token'
AnalyzeStep == pc = "analyze" /\ n_left' = n_left - 1

\* the state is the one analyze_token() left after its call on `token`
Analysed == pc = "analyze" /\ token # NoToken

\* age and liquidity within the configured bounds
InBounds(tok, t) ==
    /\ tok.createdAt # None
    /\ MIN_AGE_HOURS * HOUR <= t - tok.createdAt
    /\ t - tok.createdAt <= MAX_AGE_HOURS * HOUR
    /\ tok.liquidity # None
    /\ MIN_LIQUIDITY <= tok.liquidity
    /\ tok.liquidity <= MAX_LIQUIDITY

\* the places of the log entries of an address
LogOf(a) == {i \in DOMAIN alert_log : alert_log[i].addr = a}

\* the time of the last logged alert of an address that has one
LastLogged(a) == alert_log[CHOOSE i \in LogOf(a) : \A j \in LogOf(a) : j <= i].ts

\* the addresses of the store and of the feed
Known == Addr \cup DOMAIN seen \cup DOMAIN alert_counts

-----------------------------------------------------------------------------
(* C1 *)

\* C1: two successful dispatches for the same address are at least
\* REALERT_HOURS apart, whatever the feed returns (the dispatches of this
\* run: the later of the two was made at or after T0).
C1_DispatchesApart ==
    \A i, j \in DOMAIN alert_log :
        (i < j /\ alert_log[i].addr = alert_log[j].addr /\ alert_log[j].ts >= T0)
            => alert_log[j].ts - alert_log[i].ts >= REALERT_HOURS * HOUR

-----------------------------------------------------------------------------
(* C2 *)

\* the clock now, and times around the end of the window that follows T
ProbeTimes(T) ==
    {now, T + 1, T + REALERT_HOURS * HOUR - 1, T + REALERT_HOURS * HOUR,
     T + REALERT_HOURS * HOUR + 1}

\* C2: with REALERT_HOURS = 0, should_alert is true exactly for an address that
\* was never alerted; with REALERT_HOURS = 6 it is true for an address never
\* alerted, false at every time in (T, T+6h) and true at every time >= T+6h,
\* T being the time of the address's last alert.
C2_ShouldAlert ==
    \A a \in Known :
        /\ should_alert_window(0, seen, a, now) = (LogOf(a) = {})
        /\ LogOf(a) = {} => should_alert(seen, a, now)
        /\ LogOf(a) # {} =>
              \A t \in ProbeTimes(LastLogged(a)) :
                  /\ (LastLogged(a) < t /\ t < LastLogged(a) + 6 * HOUR)
                        => ~should_alert(seen, a, t)
                  /\ t >= LastLogged(a) + 6 * HOUR => should_alert(seen, a, t)

\* analyze_token() was called for "B" exactly 6h after its last alert, and went
\* on to update its history
C2_Witness ==
    /\ Analysed
    /\ token.tokenAddress = "B"
    /\ now = LastLogged("B") + 6 * HOUR
    /\ should_alert(seen, "B", now)
    /\ "B" \in DOMAIN history
    /\ history["B"].updated = now

-----------------------------------------------------------------------------
(* C3 *)

\* the alerts logged for address a on day d
AlertsOn(a, d) == {i \in LogOf(a) : today_key(alert_log[i].ts) = d}

DaysLogged == {today_key(alert_log[i].ts) : i \in DOMAIN alert_log}

\* the gem at the head of the list is dispatched by this step
DispatchedNow == pc = "dispatch" /\ gems # <<>> /\ alert_log' # alert_log

-----------------------------------------------------------------------------
(* C4 *)

\* C4: after prune_price_history no record is left whose last update precedes
\* now - HISTORY_MAX_AGE_HOURS.
C4_StaleRecordsRemoved ==
    pc = "analyze" =>
        \A a \in DOMAIN history :
            history[a].updated >= now - HISTORY_MAX_AGE_HOURS * HOUR

-----------------------------------------------------------------------------
(* C5 *)

\* C5: every token within the age and liquidity bounds that analyze_token is
\* called with gets a sample appended to its record and the record's last-known
\* fields and last-update time refreshed, cooldown and 24h gate included.
C5_HistoryAlwaysUpdated ==
    (Analysed /\ InBounds(token, now)) =>
        /\ token.tokenAddress \in DOMAIN history
        /\ LET rec == history[token.tokenAddress]
           IN  /\ rec.updated = now
               /\ rec.liquidity = token.liquidity
               /\ rec.samples # <<>>
               /\ rec.samples[Len(rec.samples)] =
                     [ts |-> now, priceUsd |-> token.priceUsd, liquidity |-> token.liquidity]

-----------------------------------------------------------------------------
(* C6 *)

SamplesSorted(smp) == \A i \in 1..(Len(smp) - 1) : smp[i].ts <= smp[i + 1].ts

RecordBounded(rec) ==
    /\ Len(rec.samples) <= MAX_SAMPLES
    /\ \A i \in DOMAIN rec.samples : rec.samples[i].ts >= rec.updated - SAMPLE_WINDOW
    /\ SamplesSorted(rec.samples)

\* C6: every record holds at most 500 samples, none older than 7 days at the
\* time of the record's last update, in non-decreasing order of time; an update
\* puts the new sample last, keeps the newest of the earlier samples in their
\* order, and drops an earlier sample only when it is outside the window or
\* the list is full.
C6_SamplesBounded ==
    /\ [](/\ \A a \in DOMAIN history : RecordBounded(history[a])
          /\ \A a \in DOMAIN history_file : RecordBounded(history_file[a]))
    /\ [][(AnalyzeStep /\ history' # history) =>
            LET a == token'.tokenAddress
                old == prev_hist(history, a).samples
                new == history'[a].samples
                kept == Len(new) - 1
            IN  /\ new # <<>>
                /\ new[Len(new)] = [ts |-> now, priceUsd |-> token'.priceUsd,
                                     liquidity |-> token'.liquidity]
                /\ kept <= Len(old)
                /\ \A i \in 1..kept : new[i] = old[Len(old) - kept + i]
                /\ \A i \in 1..(Len(old) - kept) :
                      old[i].ts < now - SAMPLE_WINDOW \/ Len(new) = MAX_SAMPLES
          ]_vars

\* "B" was just updated, its list is full, and both its sample from outside
\* the window and its oldest sample inside the window are gone
C6_Witness ==
    /\ Analysed
    /\ token.tokenAddress = "B"
    /\ "B" \in DOMAIN history
    /\ history["B"].updated = now
    /\ Len(history["B"].samples) = MAX_SAMPLES
    /\ history["B"].samples[1].ts > SamplesBFull[2].ts
    /\ SamplesBFull[2].ts >= now - SAMPLE_WINDOW

-----------------------------------------------------------------------------
(* C7 *)

Has(seq, x) == \E i \in DOMAIN seq : seq[i] = x

\* analyze_token returned a gem for address a with indicator ind
GemReturned(a, ind) ==
    /\ Len(gems') = Len(gems) + 1
    /\ gems'[Len(gems')].addr = a
    /\ Has(gems'[Len(gems')].indicators, ind)

\* C7: a token within the bounds, never alerted and without history, yields no
\* alert candidate but gets a history record; when a later poll sees it within
\* the bounds with a liquidity of at least MIN_LIQUIDITY_GROWTH times the
\* recorded one, the liquidity-growth indicator fires; and a dispatch whose send
\* succeeds sets the address's last-alert time and daily counter.
C7_TwoPolls ==
    /\ [][AnalyzeStep =>
            LET a == token'.tokenAddress
                fresh == a \notin DOMAIN seen /\ InBounds(token', now)
            IN  /\ (fresh /\ a \notin DOMAIN history)
                     => (gems' = gems /\ a \in DOMAIN history'
                         /\ history'[a].updated = now)
                /\ (fresh /\ a \in DOMAIN history /\ history[a].updated < now
                      /\ 10 * token'.liquidity >= MIN_LIQUIDITY_GROWTH_X10 * history[a].liquidity)
                     => GemReturned(a, "liquidity")
          ]_vars
    /\ [][DispatchedNow =>
            /\ seen'[Head(gems).addr] = now
            /\ alert_counts'[Head(gems).addr].date = today_key(now)
            /\ alert_counts'[Head(gems).addr].count >= 1
          ]_vars

-----------------------------------------------------------------------------
(* C8 *)

\* C8: a token whose age or liquidity is outside the configured bounds never
\* yields an alert candidate.
C8_OutOfBoundsNoGem ==
    [][(AnalyzeStep /\ ~InBounds(token', now)) => gems' = gems]_vars

\* "B" is out of its cooldown, its record would give a liquidity ratio of 3,
\* and the token is above MAX_LIQUIDITY: no candidate
C8_Witness ==
    /\ Analysed
    /\ token.tokenAddress = "B"
    /\ token.liquidity > MAX_LIQUIDITY
    /\ token.priceUsd # None
    /\ should_alert(seen, "B", now)
    /\ "B" \in DOMAIN history
    /\ 10 * token.liquidity >= MIN_LIQUIDITY_GROWTH_X10 * history["B"].liquidity
    /\ gems = <<>>

-----------------------------------------------------------------------------
(* C9 *)

\* C9: a token whose address has no history record when it is analysed yields
\* no alert candidate (no indicator fires on a first observation).
C9_FirstSightNoGem ==
    [][(AnalyzeStep /\ token'.tokenAddress \notin DOMAIN history) => gems' = gems]_vars

\* "A" has just been observed for the first time: its record holds the one
\* sample, and there is no candidate
C9_Witness ==
    /\ Analysed
    /\ token.tokenAddress = "A"
    /\ "A" \notin DOMAIN history_file
    /\ "A" \in DOMAIN history
    /\ history["A"].updated = now
    /\ Len(history["A"].samples) = 1
    /\ gems = <<>>

-----------------------------------------------------------------------------
(* C10 *)

\* the places of the samples of address a taken at least 24h ago
OldPlaces(a) ==
    {i \in DOMAIN prev_hist(history, a).samples :
        prev_hist(history, a).samples[i].ts <= now - 24 * HOUR}

\* the most recent of them: the one that the next sample, if any, is newer than
MostRecentOld(a) ==
    LET smp == prev_hist(history, a).samples
    IN  smp[CHOOSE i \in DOMAIN smp :
                /\ smp[i].ts <= now - 24 * HOUR
                /\ i < Len(smp) => smp[i + 1].ts > now - 24 * HOUR]

\* C10: for a token of age >= 24h that got past the cooldown and the bounds: if
\* a sample at least 24h old exists, the most recent such sample decides -- a
\* ratio >= MIN_LIQ_GROWTH_24H emits the 24h indicator, a smaller ratio leaves
\* the token without an alert candidate; if none exists the gate neither
\* rejects (the history is updated) nor emits.
C10_Gate24h ==
    [][(/\ AnalyzeStep
        /\ InBounds(token', now)
        /\ (token'.tokenAddress \in DOMAIN seen
               => now - seen[token'.tokenAddress] >= REALERT_HOURS * HOUR)
        /\ now - token'.createdAt >= 24 * HOUR) =>
          LET a == token'.tokenAddress
          IN  IF OldPlaces(a) # {}
              THEN IF 10 * token'.liquidity >= MIN_LIQ_GROWTH_24H_X10 * MostRecentOld(a).liquidity
                   THEN GemReturned(a, "liq24h")
                   ELSE gems' = gems
              ELSE /\ history'[a].updated = now
                   /\ gems' = gems \/ ~Has(gems'[Len(gems')].indicators, "liq24h")
      ]_vars

\* "B", out of its cooldown, rose 20% in price but its liquidity is below 1.5
\* times that of 24h ago: rejected, no candidate
C10_Witness ==
    /\ Analysed
    /\ token.tokenAddress = "B"
    /\ InBounds(token, now)
    /\ should_alert(seen, "B", now)
    /\ now - token.createdAt >= 24 * HOUR
    /\ "B" \in DOMAIN history
    /\ 100 * (token.priceUsd - history["B"].priceUsd) >= MIN_PRICE_MOMENTUM_PCT * history["B"].priceUsd
    /\ OldPlaces("B") # {}
    /\ 10 * token.liquidity < MIN_LIQ_GROWTH_24H_X10 * MostRecentOld("B").liquidity
    /\ history["B"].updated < now
    /\ gems = <<>>

-----------------------------------------------------------------------------
(* C11 *)

\* this call of analyze_token() got past its filters and its 24h gate and went
\* on to update the history
Completed == AnalyzeStep /\ history' # history

\* C11: the rules are evaluated independently.  For a token that got past the
\* filters and whose address has a recorded liquidity, the liquidity-growth
\* indicator fires exactly when the liquidity is at least MIN_LIQUIDITY_GROWTH
\* times the recorded one, with or without a current or a recorded price; the
\* price indicator fires exactly when both prices are there, the recorded one
\* is not zero and the rise is at least MIN_PRICE_MOMENTUM.
C11_RulesIndependent ==
    [][(/\ Completed
        /\ token'.tokenAddress \in DOMAIN history
        /\ history[token'.tokenAddress].liquidity # None
        /\ history[token'.tokenAddress].liquidity > 0) =>
          LET a == token'.tokenAddress
              prev == history[a]
          IN  /\ GemReturned(a, "liquidity")
                   = (10 * token'.liquidity >= MIN_LIQUIDITY_GROWTH_X10 * prev.liquidity)
              /\ GemReturned(a, "price")
                   = (/\ token'.priceUsd # None
                      /\ prev.priceUsd # None
                      /\ prev.priceUsd # 0
                      /\ 100 * (token'.priceUsd - prev.priceUsd)
                            >= MIN_PRICE_MOMENTUM_PCT * prev.priceUsd)
      ]_vars

-----------------------------------------------------------------------------
(* C12 *)

\* the candidate at the head of the list is dropped by this step
CandidateDropped == pc = "dispatch" /\ gems # <<>> /\ gems' = Tail(gems)

\* C12: a candidate suppressed by the daily cap, or whose send reported
\* failure, leaves the last-alert time, the daily counter and the alert log as
\* they were, and with them the verdicts of the cooldown and of the cap for the
\* next cycle; only a dispatch whose send succeeded changes any of the three.
C12_OnlySuccessChanges ==
    /\ [][(/\ CandidateDropped
           /\ \/ ~can_alert_today(alert_counts, Head(gems).addr, now)
              \/ telegram.result = "failed" /\ telegram.at = "done") =>
             /\ UNCHANGED <<seen, alert_counts, alert_log>>
             /\ should_alert(seen', Head(gems).addr, now + POLL_INTERVAL)
                  = should_alert(seen, Head(gems).addr, now + POLL_INTERVAL)
             /\ can_alert_today(alert_counts', Head(gems).addr, now + POLL_INTERVAL)
                  = can_alert_today(alert_counts, Head(gems).addr, now + POLL_INTERVAL)
          ]_vars
    /\ [][(seen' # seen \/ alert_counts' # alert_counts \/ alert_log' # alert_log) =>
             /\ CandidateDropped
             /\ telegram.at = "done"
             /\ telegram.result = "ok"
          ]_vars

\* the send for a candidate for "A", the only token analysed in this cycle,
\* failed after its last attempt: "A" is still unalerted and nothing was logged
C12_Witness ==
    /\ pc = "dispatch"
    /\ gems = <<>>
    /\ telegram.at = "idle"
    /\ telegram.result = "failed"
    /\ telegram.attempts = RETRIES
    /\ "A" \in DOMAIN history_file
    /\ history_file["A"].updated = now
    /\ "B" \in DOMAIN history_file
    /\ history_file["B"].updated < now
    /\ "A" \notin DOMAIN seen
    /\ "A" \notin DOMAIN alert_counts
    /\ LogOf("A") = {}
    /\ should_alert(seen, "A", now + POLL_INTERVAL)

-----------------------------------------------------------------------------
(* C13 *)

\* gems' is gems, or gems with one more candidate at its end
GemsKept == gems' = gems \/ (Len(gems') = Len(gems) + 1 /\ SubSeq(gems', 1, Len(gems)) = gems)

\* C13: a record that is malformed or whose analysis or dispatch fails is the
\* only one skipped.  While the batch is analysed, a turn of the loop keeps the
\* candidates and the history updates of the other records; the analysis ends
\* only when no record but the current one is left, with the history updates of
\* the cycle written to the file and the candidates kept for dispatch; and a
\* dispatch takes at most its own candidate off the list.
C13_FailureIsolated ==
    /\ [][(pc = "analyze" /\ pc' = "analyze") =>
             /\ GemsKept
             /\ \A a \in DOMAIN history :
                   /\ a \in DOMAIN history'
                   /\ a # token'.tokenAddress => history'[a] = history[a]
          ]_vars
    /\ [][(pc = "analyze" /\ pc' # "analyze") =>
             /\ n_left <= 1
             /\ \A a \in DOMAIN history :
                   history[a].updated = now =>
                       (a \in DOMAIN history_file' /\ history_file'[a] = history[a])
             /\ gems' = gems
          ]_vars
    /\ [][(pc = "dispatch" /\ gems # <<>>) =>
             /\ pc' = "dispatch"
             /\ gems' = gems \/ gems' = Tail(gems)
          ]_vars

-----------------------------------------------------------------------------
(* C14 *)

\* C14: every polling pass ends in the sleep of line 597, whatever failed in it
\* (an empty batch after a failed fetch, an exception in the analysis, a state
\* file that cannot be read, a send that fails), and unless it is the last pass
\* the model follows, the sleep is followed by the next pass, no sooner than
\* POLL_INTERVAL seconds later.
C14_LoopGoesOn ==
    /\ \A k \in 1..MaxPolls :
          (pc = "filter" /\ polls = k) ~> (pc = "sleep" /\ polls = k)
    /\ \A k \in 1..(MaxPolls - 1) :
          (pc = "sleep" /\ polls = k) ~> (pc = "filter" /\ polls = k + 1)
    /\ [][(pc = "sleep" /\ pc' # "sleep") =>
             (pc' = "idle" /\ now' >= now + POLL_INTERVAL)]_vars

\* the first pass was cut short by an exception in the analysis before any
\* file was written; the loop has slept and is about to poll again
C14_Witness ==
    /\ pc = "idle"
    /\ polls = 1
    /\ now >= T0 + POLL_INTERVAL
    /\ token.priceUsd = Unparsable
    /\ writes = <<>>
    /\ history_file = StoredHistory

-----------------------------------------------------------------------------
(* C15 *)

\* the calendar week (Monday to Sunday) of a time, as a number
week_of(t) == ((t \div DAY) + 3) \div 7

\* C15: a weekly digest is handed to send_telegram() only on a Friday at or
\* after SUMMARY_HOUR_UTC and when the stored last-summary date is not today;
\* no two digests fall on the same UTC day or in the same calendar week; and a
\* check made when the stored date is today does nothing.
C15_WeeklySummary ==
    /\ [][digests' # digests =>
             /\ digests' = Append(digests, now)
             /\ pc = "summary"
             /\ weekday(now) = 4
             /\ hour_of_day(now) >= SUMMARY_HOUR_UTC
             /\ summary_state # today_key(now)
          ]_vars
    /\ [](\A i, j \in DOMAIN digests :
             i < j => /\ today_key(digests[i]) # today_key(digests[j])
                      /\ week_of(digests[i]) # week_of(digests[j]))
    /\ [][(pc = "summary" /\ summary_state = today_key(now)) =>
             /\ pc' = "sleep"
             /\ UNCHANGED <<digests, summary_state, telegram, writes>>
          ]_vars

\* a digest went out earlier today, and a later check of the same day has
\* just passed without another
C15_Witness ==
    /\ pc = "sleep"
    /\ summary_state = today_key(now)
    /\ Len(digests) = 1
    /\ today_key(digests[1]) = today_key(now)
    /\ digests[1] < now
    /\ weekday(now) = 4
    /\ hour_of_day(now) >= SUMMARY_HOUR_UTC
    /\ telegram = TelegramIdle

-----------------------------------------------------------------------------
(* C16 *)

\* C16: a history update gives each last-known field of the record the value of
\* the current observation when the observation has one, and leaves it at the
\* record's previous value when it has none: the price and the liquidity of the
\* snapshot, the activity figures of the DexScreener answer.
C16_FieldsFallBack ==
    [][Completed =>
          LET a == token'.tokenAddress
              prev == prev_hist(history, a)
              rec == history'[a]
              answer == IF a \in DOMAIN history THEN dex_cache'[a] ELSE NoDex
          IN  /\ rec.priceUsd = IF token'.priceUsd # None THEN token'.priceUsd
                                ELSE prev.priceUsd
              /\ rec.liquidity = IF token'.liquidity # None THEN token'.liquidity
                                 ELSE prev.liquidity
              /\ rec.txns_h1 = IF answer # NoDex THEN answer.txns_h1 ELSE prev.txns_h1
              /\ rec.txns_h24 = IF answer # NoDex THEN answer.txns_h24 ELSE prev.txns_h24
              /\ rec.volume_h1 = IF answer # NoDex THEN answer.volume_h1 ELSE prev.volume_h1
      ]_vars

-----------------------------------------------------------------------------
(* C17 *)

\* C17: within a cycle a state file is written only when no token of the batch
\* is left to analyse and no candidate is left to gate and dispatch, and no
\* file is written twice.
C17_StoreWrittenLast ==
    /\ [][(writes' # writes /\ writes' # <<>>) =>
             /\ n_left = 0
             /\ gems = <<>>
             /\ telegram.at # "try"
          ]_vars
    /\ [](\A i, j \in DOMAIN writes : i # j => writes[i] # writes[j])

-----------------------------------------------------------------------------
(* C18 *)

\* a record of the file that prune_price_history is not meant to drop
Fresh(rec) == rec.updated >= now - HISTORY_MAX_AGE_HOURS * HOUR

\* C18: a cycle starts its analysis with the records of the file or, when the
\* file cannot be read, with none, and goes on; and when the analysis of a
\* cycle ends, every fresh record that was in the file is still there for the
\* load of the next cycle -- unchanged if the cycle did not have it in memory.
C18_ReadFailureIsTransient ==
    /\ [][pc = "filter" =>
             /\ pc' = "analyze"
             /\ history' = EmptyDict \/ DOMAIN history' = DOMAIN history_file
          ]_vars
    /\ [][(pc = "analyze" /\ pc' # "analyze") =>
             \A a \in DOMAIN history_file :
                 Fresh(history_file[a]) =>
                     /\ a \in DOMAIN history_file'
                     /\ a \notin DOMAIN history => history_file'[a] = history_file[a]
          ]_vars

-----------------------------------------------------------------------------
(* C19 *)

\* C19: a call of send_telegram ends; it makes no more than RETRIES
\* attempts; the waits are 2, 4, ... seconds, one after every failed attempt
\* but the last and none after a successful one; it returns True with the
\* first attempt that succeeds and makes no attempt after it; it returns
\* False after RETRIES failed attempts, or with no attempt at all when
\* Telegram is not configured.
C19_SendTelegramTerminates ==
    /\ [](/\ telegram.attempts \in 0..RETRIES
          /\ \A i \in DOMAIN telegram.backoff : telegram.backoff[i] = 2 ^ i
          /\ telegram.at = "try" =>
                /\ configured
                /\ telegram.attempts < RETRIES
                /\ Len(telegram.backoff) = telegram.attempts
          /\ telegram.result = "ok" =>
                /\ configured
                /\ telegram.attempts >= 1
                /\ Len(telegram.backoff) = telegram.attempts - 1
          /\ telegram.result = "failed" =>
                IF configured
                THEN /\ telegram.attempts = RETRIES
                     /\ Len(telegram.backoff) = RETRIES - 1
                ELSE /\ telegram.attempts = 0
                     /\ telegram.backoff = <<>>)
    /\ [][telegram'.attempts # telegram.attempts =>
             \/ /\ telegram.at = "try"
                /\ telegram'.attempts = telegram.attempts + 1
                /\ telegram'.at = "try" <=> telegram'.backoff # telegram.backoff
                /\ telegram'.at = "done" <=> telegram'.result # "none"
                /\ telegram'.result = "failed" => telegram'.attempts = RETRIES
             \/ /\ telegram.at # "try"
                /\ telegram'.attempts = 0
          ]_vars
    /\ (telegram.at = "try") ~> (telegram.at = "done")

\* a configured call that returned False after three attempts and two waits
C19_Witness ==
    /\ configured
    /\ telegram.at = "done"
    /\ telegram.result = "failed"
    /\ telegram.attempts = RETRIES
    /\ telegram.backoff = <<2, 4>>

-----------------------------------------------------------------------------
(* C20 *)

\* the log entries of an address made on the UTC day of t
LoggedOn(a, t) == {i \in LogOf(a) : today_key(alert_log[i].ts) = today_key(t)}

\* C20: the last-alert time, the daily counter and the alert log change in
\* the step of a successful dispatch only, which sets the time of the
\* address, adds one to its counter and appends one log entry for it, the
\* earlier entries staying as they are; and in every state the counter of an
\* address that is stored for the current UTC day is the number of its log
\* entries of that day, and the addresses with a last-alert time are those
\* with a log entry.
C20_CounterMatchesLog ==
    /\ [][(seen' # seen \/ alert_counts' # alert_counts \/ alert_log' # alert_log) =>
             /\ pc = "dispatch"
             /\ telegram.at = "done"
             /\ telegram.result = "ok"
             /\ gems # <<>>
             /\ LET a == Head(gems).addr
                IN  /\ a \in DOMAIN seen'
                    /\ seen'[a] >= now
                    /\ \A b \in DOMAIN seen' \ {a} : b \in DOMAIN seen /\ seen'[b] = seen[b]
                    /\ a \in DOMAIN alert_counts'
                    /\ alert_counts'[a].count =
                          IF a \in DOMAIN alert_counts
                             /\ alert_counts[a].date = alert_counts'[a].date
                          THEN alert_counts[a].count + 1
                          ELSE 1
                    /\ \A b \in DOMAIN alert_counts' \ {a} :
                          b \in DOMAIN alert_counts /\ alert_counts'[b] = alert_counts[b]
                    /\ Len(alert_log') = Len(alert_log) + 1
                    /\ alert_log'[Len(alert_log')].addr = a
          ]_vars
    /\ [][/\ Len(alert_log') >= Len(alert_log)
          /\ \A i \in DOMAIN alert_log : alert_log'[i] = alert_log[i]
          ]_vars
    /\ [](/\ \A a \in DOMAIN alert_counts :
                alert_counts[a].date = today_key(now) =>
                    alert_counts[a].count = Cardinality(LoggedOn(a, now))
          /\ \A a \in Known : a \in DOMAIN seen <=> LogOf(a) # {})

-----------------------------------------------------------------------------
(* C21 *)

\* the token is a week old or older
WeekOld(tok, t) == tok.createdAt # None /\ age_seconds(tok, t) >= WEEKOLD_AGE_HOURS * HOUR

-----------------------------------------------------------------------------
(* C22 *)

\* a digest was handed to send_telegram() on the UTC day of t, before t
DigestEarlierOn(t) ==
    \E i \in DOMAIN digests : today_key(digests[i]) = today_key(t) /\ digests[i] < t

\* C22: when send_telegram() has returned for the digest, True or False, the
\* next step stores today as the last-summary date and ends the cycle without
\* another send; from then on the stored date is today for the rest of the
\* day, so no later check of that day hands the digest over again; and where
\* every send fails (Telegram not configured) no two digests fall on the same
\* day or in the same calendar week.
C22_FailedDigestNotRetried ==
    /\ [][(pc = "summary" /\ telegram.at = "done") =>
             /\ telegram.result \in {"ok", "failed"}
             /\ summary_state' = today_key(now)
             /\ pc' = "sleep"
             /\ digests' = digests
          ]_vars
    /\ []((DigestEarlierOn(now) \/ (pc = "sleep" /\ Has(digests, now))) =>
             summary_state = today_key(now))
    /\ [][DigestEarlierOn(now) => digests' = digests]_vars
    /\ [](~configured =>
             \A i, j \in DOMAIN digests :
                 i < j => /\ today_key(digests[i]) # today_key(digests[j])
                          /\ week_of(digests[i]) # week_of(digests[j]))

\* Telegram is not configured, so the send of the digest failed; a later
\* check of the same Friday has passed without handing it over again
C22_Witness ==
    /\ ~configured
    /\ pc = "sleep"
    /\ Len(digests) = 1
    /\ digests[1] < now
    /\ today_key(digests[1]) = today_key(now)
    /\ weekday(now) = 4
    /\ hour_of_day(now) >= SUMMARY_HOUR_UTC
    /\ summary_state = today_key(now)

====
